---- MODULE Spec2Model ----
(***************************************************************************)
(* Report generation and indexing engine of playwright-crx-enhanced:       *)
(*   - the dashboard's run selector and its bounded wait                   *)
(*     (Dashboard.tsx, handleImportScriptAndGenerateReport),               *)
(*   - the generate-report request handler (allure.controller.ts),         *)
(*   - the report service over the filesystem (allure.service.ts):         *)
(*     raw-result pool, one artifact directory per run, one ledger per     *)
(*     project under allure-reports/by-project, retention cleanup.         *)
(* The backend is one Node.js process: a handler runs without interruption *)
(* between two awaits of real I/O, so every action below is one such       *)
(* stretch of code.                                                        *)
(***************************************************************************)
EXTENDS Integers, Sequences, FiniteSets, TLC

\* ---------------------------------------------------------------- bounds
MaxRuns == 2          \* rows the TestRun table can hold in the model
MaxClock == 1         \* the clock runs 0..MaxClock
DaysPerTick == 2      \* days between two readings of the clock

\* ------------------------------------------------------ program constants
maxAttempts == 30     \* Dashboard.tsx: const maxAttempts = 30
DefaultDaysToKeep == 7 \* allure.controller.ts: days || 7

\* ------------------------------------------------------------ value sets
Procs == {1, 2}                     \* client flows
RunIds == 1..MaxRuns
Scripts == {"S1", "S2", "S3"}
Projects == {"P1", "P2"}
ProjectOf(s) == IF s = "S3" THEN "P2" ELSE "P1"      \* Script.projectId
NoProject == "-"                    \* req.query.projectId omitted
Users == {"u1"}
NoUser == "anonymous"               \* (req as any).user?.userId undefined
Statuses == {"queued", "running", "passed", "failed", "completed"}
ToolOutcomes == {"ok", "noindex", "fail"}
Faults == {"none", "pool", "mkdir", "write"}
FallbackOutcomes == {"ok", "nomkdir", "nowrite"}
DaysChoices == {0, 1}               \* body.days of a cleanup request

NoUrl == << >>                      \* the empty string ''
NoRun == [exists |-> FALSE, scriptId |-> "-", userId |-> "-", startedAt |-> 0,
          url |-> NoUrl]
NoResult == [exists |-> FALSE, status |-> "-", message |-> FALSE]
NoPage == [kind |-> "none", runId |-> 0, badge |-> FALSE, errorBlock |-> FALSE,
           cliNote |-> FALSE]
NoDir == [exists |-> FALSE, entry |-> NoPage, mtime |-> 0, assets |-> "none"]
\* no <project>.json.tmp left in by-project
NoTmp == [p \in Projects |-> "none"]
IdleFlow == [kind |-> "none", scriptId |-> "-", userId |-> NoUser, testRunId |-> 0,
             mostRecentRun |-> 0, attempts |-> 0, polls |-> 0, waited |-> "-",
             created |-> 0,
             generated |-> 0, path |-> "-", http |-> 0, reportPath |-> NoUrl,
             reportUrl |-> NoUrl, selectedReport |-> NoUrl, prevUrl |-> NoUrl,
             exec |-> "-", tried |-> 0, error |-> "-"]

VARIABLES
  now,        \* Date.now(), in days
  runs,       \* the TestRun table (joined with Script): RunIds -> row or NoRun;
              \* the status column is run management's and is read by polling
  results,    \* allure-results/<id>-result.json: RunIds -> raw result
  reports,    \* allure-reports/<id>/: RunIds -> directory: [exists, entry, mtime,
              \* assets], entry its index.html, assets the other files in it
              \* ("allure": the data and scripts the report tool writes)
  indexDir,   \* allure-reports/by-project/: [exists, mtime, corrupt, tmp], corrupt
              \* the projects whose file does not parse as a list, tmp what is
              \* left of each project's <project>.json.tmp
  ledger,     \* allure-reports/by-project/<project>.json: Projects -> Seq(entry)
  pc,         \* Procs -> position of the flow
  flow        \* Procs -> the flow's locals and what it was answered

vars == <<now, runs, results, reports, indexDir, ledger, pc, flow>>

\* =====================================================================
\* allure.service.ts (src/unnamed/part_000)
\* =====================================================================

\* path.join(ALLURE_REPORTS_DIR, testRunId)
ReportPathOf(r) == <<"allure-reports", r>>

\* `/allure-reports/${testRunId}/index.html`
ReportUrlOf(r) == <<"allure-reports", r, "index.html">>

getReportUrl_Versioned(rep, r) ==
  IF rep[r].exists THEN <<"allure-reports", r, rep[r].entry.kind>> ELSE NoUrl
\* getReportUrl: the URL when the run's directory exists, '' otherwise
getReportUrl(rep, r) == IF rep[r].exists THEN ReportUrlOf(r) ELSE NoUrl

\* getReportUrl('by-project'): the index directory is a name under
\* allure-reports like the run ids
getReportUrlOfIndexDir(dir) ==
  IF dir.exists THEN <<"allure-reports", "by-project", "index.html">> ELSE NoUrl

minimalResult_Failed == [exists |-> TRUE, status |-> "failed", message |-> FALSE]
\* minimalResult written when <id>-result.json is missing
minimalResult == [exists |-> TRUE, status |-> "passed", message |-> FALSE]

\* index.html written by the Allure CLI: the tool's own page
AllurePage == [kind |-> "allure", runId |-> 0, badge |-> FALSE, errorBlock |-> FALSE,
               cliNote |-> FALSE]

BasicPage_ErrorBlock(r) == [kind |-> "basic", runId |-> r, badge |-> FALSE,
                            errorBlock |-> TRUE, cliNote |-> FALSE]
\* index.html of the basic report (inner fallback)
BasicPage(r) == [kind |-> "basic", runId |-> r, badge |-> TRUE, errorBlock |-> FALSE,
                 cliNote |-> TRUE]

\* index.html of the outer catch
ErrorPage(r) == [kind |-> "error", runId |-> r, badge |-> FALSE, errorBlock |-> TRUE,
                 cliNote |-> FALSE]

\* fs.writeFileSync(<dir>/index.html, page): creating the file touches the
\* directory's mtime, overwriting it does not
WriteEntry(d, page, t) ==
  [d EXCEPT !.entry = page, !.mtime = IF d.entry = NoPage THEN t ELSE d.mtime]

GenerateFallback_Silent(res, rep, t, r, fb) ==
  [results |-> res, reports |-> rep, threw |-> FALSE, path |-> ReportPathOf(r),
   exec |-> "-"]
\* the catch block of generateReport: mkdir if missing, write the error page,
\* return the path; if one of the two throws, rethrow the first error
GenerateFallback(res, rep, t, r, fb) ==
  LET d0 == IF rep[r].exists THEN rep[r]
            ELSE [exists |-> TRUE, entry |-> NoPage, mtime |-> t, assets |-> "none"]
  IN  IF fb = "nomkdir" /\ ~rep[r].exists
        THEN [results |-> res, reports |-> rep, threw |-> TRUE, path |-> NoUrl, exec |-> "-"]
      ELSE IF fb = "ok"
        THEN [results |-> res, reports |-> [rep EXCEPT ![r] = WriteEntry(d0, ErrorPage(r), t)],
              threw |-> FALSE, path |-> ReportPathOf(r), exec |-> "-"]
      ELSE [results |-> res, reports |-> [rep EXCEPT ![r] = d0],
            threw |-> TRUE, path |-> NoUrl, exec |-> "-"]

generateReport_NoFallback(res, rep, t, r, tool, fault, fb) ==
  IF tool = "fail" \/ fault # "none"
    THEN [results |-> res, reports |-> rep, threw |-> TRUE, path |-> NoUrl, exec |-> tool]
    ELSE [results |-> [res EXCEPT ![r] = IF res[r].exists THEN res[r] ELSE minimalResult],
          reports |-> [rep EXCEPT ![r] = [exists |-> TRUE, entry |-> AllurePage, mtime |-> t,
                                          assets |-> "allure"]],
          threw |-> FALSE, path |-> ReportPathOf(r), exec |-> tool]
\* generateReport(testRunId). tool: what `npx allure generate --clean` does;
\* fault: the filesystem call of the try block that throws, if any;
\* fb: which filesystem call of the catch block throws, if any.
\* exec: what execSync did, "-" when the call was not reached.
generateReport(res, rep, t, r, tool, fault, fb) ==
  LET needResult == ~res[r].exists
      res1 == IF needResult THEN [res EXCEPT ![r] = minimalResult] ELSE res
      needDir == ~rep[r].exists
      rep1 == IF needDir
                THEN [rep EXCEPT ![r] = [exists |-> TRUE, entry |-> NoPage, mtime |-> t,
                                          assets |-> "none"]]
                ELSE rep
      \* --clean empties the directory before the tool writes its output
      rep2 == CASE tool = "ok" -> [rep1 EXCEPT ![r] = [exists |-> TRUE, entry |-> AllurePage,
                                                       mtime |-> t, assets |-> "allure"]]
                [] tool = "noindex" -> [rep1 EXCEPT ![r] = [exists |-> TRUE, entry |-> NoPage,
                                                            mtime |-> t, assets |-> "allure"]]
                [] OTHER -> rep1
      useBasicReport == tool = "fail"
      needBasic == useBasicReport \/ rep2[r].entry = NoPage
      rep3 == IF needBasic THEN [rep2 EXCEPT ![r] = WriteEntry(rep2[r], BasicPage(r), t)]
              ELSE rep2
  IN  IF fault = "pool" /\ needResult
        THEN GenerateFallback(res, rep, t, r, fb)
      ELSE IF fault = "mkdir" /\ needDir
        THEN GenerateFallback(res1, rep, t, r, fb)
      ELSE IF fault = "write" /\ needBasic
        THEN [GenerateFallback(res1, rep2, t, r, fb) EXCEPT !.exec = tool]
      ELSE [results |-> res1, reports |-> rep3, threw |-> FALSE, path |-> ReportPathOf(r),
            exec |-> tool]

\* current.filter(r => r.id !== entry.id)
RECURSIVE FilterOut(_, _)
FilterOut(seq, id) ==
  IF seq = << >> THEN << >>
  ELSE IF Head(seq).id = id THEN FilterOut(Tail(seq), id)
  ELSE <<Head(seq)>> \o FilterOut(Tail(seq), id)

\* readProjectIndex(projectId): [] when the file is missing, does not parse
\* or is not a list
readProjectIndex(led, dir, p) ==
  IF dir.exists /\ p \notin dir.corrupt THEN led[p] ELSE << >>

Upsert_NoDedupe(current, entry) == <<entry>> \o current
Upsert_Push(current, entry) == FilterOut(current, entry.id) \o <<entry>>
\* the list appendProjectIndexEntry writes: de-duplicate by id, unshift
Upsert(current, entry) == <<entry>> \o FilterOut(current, entry.id)

\* appendProjectIndexEntry(projectId, entry): writes <file>.tmp and renames it;
\* any failure is logged and swallowed
appendProjectIndexEntry_Overwrite(led, dir, t, p, entry) ==
  IF dir.exists
    THEN [ledger |-> [led EXCEPT ![p] = <<entry>>],
          indexDir |-> [dir EXCEPT !.mtime = t, !.corrupt = @ \ {p},
                                 !.tmp[p] = "none"]]
    ELSE [ledger |-> led, indexDir |-> dir]
appendProjectIndexEntry_Strict(led, dir, t, p, entry) ==
  IF dir.exists /\ p \notin dir.corrupt
    THEN [ledger |-> [led EXCEPT ![p] = Upsert(led[p], entry)],
          indexDir |-> [dir EXCEPT !.mtime = t, !.tmp[p] = "none"]]
    ELSE [ledger |-> led, indexDir |-> dir]
\* a file that does not parse counts as the empty list, and the write replaces it
appendProjectIndexEntry(led, dir, t, p, entry) ==
  LET current == IF p \in dir.corrupt THEN << >> ELSE led[p]
  IN IF dir.exists
       THEN [ledger |-> [led EXCEPT ![p] = Upsert(current, entry)],
             indexDir |-> [dir EXCEPT !.mtime = t, !.corrupt = @ \ {p},
                                 !.tmp[p] = "none"]]
       ELSE [ledger |-> led, indexDir |-> dir]

\* =====================================================================
\* run management (the /test-runs routes)
\* =====================================================================
FreeIds == {r \in RunIds : ~runs[r].exists}
NextId == CHOOSE r \in FreeIds : \A q \in FreeIds : r <= q

\* POST /test-runs/start {scriptId}: a new row with status queued
CreateRun(s, u) ==
  [runs EXCEPT ![NextId] = [exists |-> TRUE, scriptId |-> s, userId |-> u,
                            startedAt |-> now, url |-> NoUrl]]

\* GET /test-runs?scriptId=..: the rows of the script
ListRuns(s) == {r \in RunIds : runs[r].exists /\ runs[r].scriptId = s}

\* cleanupOldReports(daysToKeep): every name under allure-reports whose mtime
\* is more than daysToKeep days old is removed, recursively; by-project is
\* one of the names
Expired_Hours(mtime, t, daysToKeep) == (t - mtime) * DaysPerTick * 24 > daysToKeep
Expired(mtime, t, daysToKeep) == (t - mtime) * DaysPerTick > daysToKeep

cleanupOldReports(rep, dir, led, t, daysToKeep) ==
  LET dropIndex == dir.exists /\ Expired(dir.mtime, t, daysToKeep)
  IN [reports |-> [r \in RunIds |->
                     IF rep[r].exists /\ Expired(rep[r].mtime, t, daysToKeep)
                       THEN NoDir ELSE rep[r]],
      indexDir |-> IF dropIndex THEN [exists |-> FALSE, mtime |-> 0, corrupt |-> {}, tmp |-> NoTmp]
                                ELSE dir,
      ledger |-> IF dropIndex THEN [p \in Projects |-> << >>] ELSE led]

\* =====================================================================
\* Dashboard.tsx: handleImportScriptAndGenerateReport
\* =====================================================================
Rest == {"idle", "done", "failed"}
Terminal_NoCompleted(st) == st = "passed" \/ st = "failed"
Terminal(st) == st = "passed" \/ st = "failed" \/ st = "completed"

\* if (mostRecentRun.executionReportUrl): a non-empty string
HasReport_Never(run) == FALSE
HasReport(run) == run.url # NoUrl

MostRecentRuns_Oldest(s) ==
  {r \in ListRuns(s) : \A q \in ListRuns(s) : runs[q].startedAt >= runs[r].startedAt}
\* sortedRuns[0]: a run of the script with the greatest startedAt (the sort
\* is stable, so among equal timestamps the order of the response decides)
MostRecentRuns(s) ==
  {r \in ListRuns(s) : \A q \in ListRuns(s) : runs[q].startedAt <= runs[r].startedAt}

\* GET /test-runs, then the choice between the three paths
SelFetch(p, s) ==
  /\ pc[p] \in Rest
  /\ IF ListRuns(s) # {}
       THEN \E m \in MostRecentRuns(s) :
              IF HasReport(runs[m])
                THEN /\ flow' = [flow EXCEPT ![p] = [IdleFlow EXCEPT !.kind = "sel",
                                   !.scriptId = s, !.userId = "u1", !.path = "cache",
                                   !.mostRecentRun = m, !.selectedReport = runs[m].url]]
                     /\ pc' = [pc EXCEPT ![p] = "done"]
                ELSE /\ flow' = [flow EXCEPT ![p] = [IdleFlow EXCEPT !.kind = "sel",
                                   !.scriptId = s, !.userId = "u1", !.path = "genonly",
                                   !.mostRecentRun = m, !.testRunId = m,
                                   !.generated = 1]]
                     /\ pc' = [pc EXCEPT ![p] = "g_auth"]
       ELSE /\ flow' = [flow EXCEPT ![p] = [IdleFlow EXCEPT !.kind = "sel",
                          !.scriptId = s, !.userId = "u1", !.path = "new"]]
            /\ pc' = [pc EXCEPT ![p] = "create"]
  /\ UNCHANGED <<now, runs, results, reports, indexDir, ledger>>

SelCreateOk_Dedupe(p) ==
  /\ pc[p] = "create"
  /\ FreeIds # {}
  /\ IF ListRuns(flow[p].scriptId) # {}
       THEN /\ UNCHANGED runs
            /\ flow' = [flow EXCEPT ![p].testRunId =
                                      CHOOSE r \in ListRuns(flow[p].scriptId) : TRUE,
                                    ![p].tried = @ + 1]
       ELSE /\ runs' = CreateRun(flow[p].scriptId, flow[p].userId)
            /\ flow' = [flow EXCEPT ![p].testRunId = NextId, ![p].created = @ + 1,
                                    ![p].tried = @ + 1]
  /\ pc' = [pc EXCEPT ![p] = "poll"]
  /\ UNCHANGED <<now, results, reports, indexDir, ledger>>
\* POST /test-runs/start answered: the id of the new run, then the wait begins
SelCreateOk(p) ==
  /\ pc[p] = "create"
  /\ FreeIds # {}
  /\ runs' = CreateRun(flow[p].scriptId, flow[p].userId)
  /\ flow' = [flow EXCEPT ![p].testRunId = NextId, ![p].created = @ + 1,
                           ![p].tried = @ + 1]
  /\ pc' = [pc EXCEPT ![p] = "poll"]
  /\ UNCHANGED <<now, results, reports, indexDir, ledger>>

SelCreateFail_Retry(p) ==
  /\ pc[p] = "create"
  /\ flow' = [flow EXCEPT ![p].tried = @ + 1]
  /\ UNCHANGED <<now, runs, results, reports, indexDir, ledger, pc>>
\* POST /test-runs/start rejected: the catch block throws an Error carrying
\* the message of the rejection; tried counts the POSTs of the invocation
SelCreateFail(p) ==
  /\ pc[p] = "create"
  /\ flow' = [flow EXCEPT ![p].tried = @ + 1, ![p].error = "create"]
  /\ pc' = [pc EXCEPT ![p] = "failed"]
  /\ UNCHANGED <<now, runs, results, reports, indexDir, ledger>>

SelPoll_TimeoutThrows(p, status) ==
  /\ pc[p] = "poll"
  /\ LET attempts1 == flow[p].attempts + 1
     IN IF Terminal(status)
          THEN /\ flow' = [flow EXCEPT ![p].polls = 0, ![p].attempts = 0,
                                       ![p].waited = "terminal", ![p].generated = 1]
               /\ pc' = [pc EXCEPT ![p] = "g_auth"]
          ELSE IF attempts1 < maxAttempts
            THEN /\ flow' = [flow EXCEPT ![p].polls = @ + 1,
                                         ![p].attempts = attempts1]
                 /\ UNCHANGED pc
            ELSE /\ flow' = [flow EXCEPT ![p].polls = 0, ![p].attempts = 0,
                                         ![p].waited = "timeout"]
                 /\ pc' = [pc EXCEPT ![p] = "failed"]
  /\ UNCHANGED <<now, runs, results, reports, indexDir, ledger>>

\* one turn of the while loop: sleep 1 s, GET /test-runs/:id, test the status
\* run management reports; leaving the loop, POST /allure/generate/:id.
\* attempts is local to the loop and polls counts the GETs made so far in it;
\* once the loop is left, waited keeps how it ended.
SelPoll(p, status) ==
  /\ pc[p] = "poll"
  /\ LET attempts1 == flow[p].attempts + 1
     IN IF Terminal(status)
          THEN /\ flow' = [flow EXCEPT ![p].polls = 0, ![p].attempts = 0,
                                       ![p].waited = "terminal", ![p].generated = 1]
               /\ pc' = [pc EXCEPT ![p] = "g_auth"]
          ELSE IF attempts1 < maxAttempts
            THEN /\ flow' = [flow EXCEPT ![p].polls = @ + 1,
                                         ![p].attempts = attempts1]
                 /\ UNCHANGED pc
            ELSE /\ flow' = [flow EXCEPT ![p].polls = 0, ![p].attempts = 0,
                                         ![p].waited = "timeout", ![p].generated = 1]
                 /\ pc' = [pc EXCEPT ![p] = "g_auth"]
  /\ UNCHANGED <<now, runs, results, reports, indexDir, ledger>>

\* GET /test-runs/:id fails: the catch block throws an Error carrying the
\* message of the failure
SelPollFail(p) ==
  /\ pc[p] = "poll"
  /\ flow' = [flow EXCEPT ![p].error = "status"]
  /\ pc' = [pc EXCEPT ![p] = "failed"]
  /\ UNCHANGED <<now, runs, results, reports, indexDir, ledger>>

\* generateExecutionReport(testRunId): POST /allure/generate/:id for a run id.
\* prevUrl remembers the URL the client was answered the last time, when its
\* last request was for the same run.
DirectGenerate(p, r, u) ==
  /\ pc[p] \in Rest
  /\ flow' = [flow EXCEPT ![p] = [IdleFlow EXCEPT !.kind = "gen", !.userId = u,
                                   !.testRunId = r, !.generated = 1,
                                   !.prevUrl = IF flow[p].testRunId = r
                                                 THEN flow[p].reportUrl ELSE NoUrl]]
  /\ pc' = [pc EXCEPT ![p] = "g_auth"]
  /\ UNCHANGED <<now, runs, results, reports, indexDir, ledger>>

\* =====================================================================
\* allure.controller.ts: generateReport
\* =====================================================================

\* the run must exist and belong to the user: 404 otherwise
GenAuth(p) ==
  /\ pc[p] = "g_auth"
  /\ flow[p].userId # NoUser
  /\ LET r == flow[p].testRunId
     IN IF runs[r].exists /\ runs[r].userId = flow[p].userId
          THEN /\ pc' = [pc EXCEPT ![p] = "g_build"]
               /\ UNCHANGED flow
          ELSE /\ pc' = [pc EXCEPT ![p] = "failed"]
               /\ flow' = [flow EXCEPT ![p].http = 404]
  /\ UNCHANGED <<now, runs, results, reports, indexDir, ledger>>

\* allureService.generateReport, then allureService.getReportUrl
GenBuild(p, tool, fault, fb) ==
  /\ pc[p] = (IF flow[p].userId = NoUser THEN "g_auth" ELSE "g_build")
  /\ LET r == flow[p].testRunId
         g == generateReport(results, reports, now, r, tool, fault, fb)
         reportUrl == getReportUrl(g.reports, r)
     IN /\ results' = g.results
        /\ reports' = g.reports
        /\ IF g.threw
             THEN /\ flow' = [flow EXCEPT ![p].http = 500, ![p].exec = g.exec]
                  /\ pc' = [pc EXCEPT ![p] = "failed"]
             ELSE IF reportUrl # NoUrl
               THEN /\ flow' = [flow EXCEPT ![p].reportPath = g.path,
                                            ![p].reportUrl = reportUrl,
                                            ![p].exec = g.exec]
                    /\ pc' = [pc EXCEPT ![p] = "g_update"]
               ELSE /\ flow' = [flow EXCEPT ![p].reportPath = g.path, ![p].http = 200,
                                            ![p].exec = g.exec]
                    /\ pc' = [pc EXCEPT ![p] = "done"]
  /\ UNCHANGED <<now, runs, indexDir, ledger>>

GenUpdate_NoWrite(p, dbOk) ==
  /\ pc[p] = "g_update"
  /\ pc' = [pc EXCEPT ![p] = "g_index"]
  /\ UNCHANGED <<now, runs, results, reports, indexDir, ledger, flow>>
\* UPDATE "TestRun" SET "executionReportUrl"; a failure is logged only
GenUpdate(p, dbOk) ==
  /\ pc[p] = "g_update"
  /\ LET r == flow[p].testRunId
     IN runs' = IF dbOk /\ runs[r].exists
                  THEN [runs EXCEPT ![r].url = flow[p].reportUrl] ELSE runs
  /\ pc' = [pc EXCEPT ![p] = "g_index"]
  /\ UNCHANGED <<now, results, reports, indexDir, ledger, flow>>

IndexEntry_NoId(r, reportUrl) ==
  [id |-> 0, projectId |-> ProjectOf(runs[r].scriptId), scriptId |-> runs[r].scriptId,
   startedAt |-> runs[r].startedAt, reportUrl |-> reportUrl, createdAt |-> now]
\* the entry built from the joined row
IndexEntry(r, reportUrl) ==
  [id |-> r, projectId |-> ProjectOf(runs[r].scriptId), scriptId |-> runs[r].scriptId,
   startedAt |-> runs[r].startedAt, reportUrl |-> reportUrl, createdAt |-> now]

GenIndex_Fatal(p, dbOk) ==
  /\ pc[p] = "g_index"
  /\ LET r == flow[p].testRunId
         a == appendProjectIndexEntry(ledger, indexDir, now,
                ProjectOf(runs[r].scriptId), IndexEntry(r, flow[p].reportUrl))
     IN IF dbOk /\ runs[r].exists /\ indexDir.exists
          THEN /\ ledger' = a.ledger /\ indexDir' = a.indexDir
               /\ flow' = [flow EXCEPT ![p].http = 200,
                                       ![p].selectedReport = flow[p].reportUrl]
               /\ pc' = [pc EXCEPT ![p] = "done"]
          ELSE /\ UNCHANGED <<ledger, indexDir>>
               /\ flow' = [flow EXCEPT ![p].http = 500]
               /\ pc' = [pc EXCEPT ![p] = "failed"]
  /\ UNCHANGED <<now, runs, results, reports>>
\* SELECT the row, append the entry to the project's ledger, answer 200; the
\* client shows the report of the answer
GenIndex(p, dbOk) ==
  /\ pc[p] = "g_index"
  /\ LET r == flow[p].testRunId
         a == appendProjectIndexEntry(ledger, indexDir, now,
                ProjectOf(runs[r].scriptId), IndexEntry(r, flow[p].reportUrl))
     IN IF dbOk /\ runs[r].exists
          THEN ledger' = a.ledger /\ indexDir' = a.indexDir
          ELSE UNCHANGED <<ledger, indexDir>>
  /\ flow' = [flow EXCEPT ![p].http = 200, ![p].selectedReport = flow[p].reportUrl]
  /\ pc' = [pc EXCEPT ![p] = "done"]
  /\ UNCHANGED <<now, runs, results, reports>>

CrashPoints == {"write", "rename"}

GenIndexCrash_InPlace(p, at) ==
  /\ pc[p] = "g_index"
  /\ LET r == flow[p].testRunId
         P == ProjectOf(runs[r].scriptId)
         a == appendProjectIndexEntry(ledger, indexDir, now, P,
                                      IndexEntry(r, flow[p].reportUrl))
     IN /\ runs[r].exists
        /\ indexDir.exists
        /\ IF at = "write"
             THEN /\ ledger' = [ledger EXCEPT ![P] = << >>]
                  /\ indexDir' = [indexDir EXCEPT !.mtime = now, !.corrupt = @ \cup {P}]
             ELSE /\ ledger' = a.ledger
                  /\ indexDir' = a.indexDir
  /\ pc' = [q \in Procs |-> IF pc[q] \in Rest THEN pc[q] ELSE "failed"]
  /\ flow' = [q \in Procs |-> IF pc[q] \in Rest THEN flow[q]
                                ELSE [flow[q] EXCEPT !.error = "crash"]]
  /\ UNCHANGED <<now, runs, results, reports>>
\* the process dies inside appendProjectIndexEntry: at "write" while
\* writeFileSync is writing <project>.json.tmp, at "rename" after the write and
\* before renameSync. The project's file is untouched, the temporary file
\* stays behind, and no request in flight is answered.
GenIndexCrash(p, at) ==
  /\ pc[p] = "g_index"
  /\ LET r == flow[p].testRunId
         P == ProjectOf(runs[r].scriptId)
     IN /\ runs[r].exists
        /\ indexDir.exists
        /\ indexDir' = [indexDir EXCEPT !.mtime = now,
                            !.tmp[P] = IF at = "write" THEN "partial" ELSE "full"]
  /\ pc' = [q \in Procs |-> IF pc[q] \in Rest THEN pc[q] ELSE "failed"]
  /\ flow' = [q \in Procs |-> IF pc[q] \in Rest THEN flow[q]
                                ELSE [flow[q] EXCEPT !.error = "crash"]]
  /\ UNCHANGED <<now, runs, results, reports, ledger>>

\* =====================================================================
\* the other requests and the environment
\* =====================================================================

\* a run started from elsewhere in the UI
StartTestRun(s) ==
  /\ FreeIds # {}
  /\ runs' = CreateRun(s, "u1")
  /\ UNCHANGED <<now, results, reports, indexDir, ledger, pc, flow>>

\* endTest(testId, status, errorMessage): the execution writes the raw result
EndTest(r, failed) ==
  /\ results' = [results EXCEPT ![r] = [exists |-> TRUE,
                    status |-> IF failed THEN "failed" ELSE "passed",
                    message |-> failed]]
  /\ results' # results
  /\ UNCHANGED <<now, runs, reports, indexDir, ledger, pc, flow>>

\* POST cleanup {days}: daysToKeep = days || 7
Cleanup(days) ==
  /\ LET daysToKeep == IF days = 0 THEN DefaultDaysToKeep ELSE days
         c == cleanupOldReports(reports, indexDir, ledger, now, daysToKeep)
     IN /\ reports' = c.reports
        /\ indexDir' = c.indexDir
        /\ ledger' = c.ledger
  /\ UNCHANGED <<now, runs, results, pc, flow>>

\* the content of a project's file is damaged from outside the service (the
\* service itself replaces the file by rename): what was in it is lost
CorruptLedger(P) ==
  /\ indexDir.exists
  /\ P \notin indexDir.corrupt
  /\ indexDir' = [indexDir EXCEPT !.corrupt = @ \cup {P}]
  /\ ledger' = [ledger EXCEPT ![P] = << >>]
  /\ UNCHANGED <<now, runs, results, reports, pc, flow>>

Tick ==
  /\ now < MaxClock
  /\ now' = now + 1
  /\ UNCHANGED <<runs, results, reports, indexDir, ledger, pc, flow>>

\* =====================================================================
\* allure.controller.ts: getReportUrl (a read; used by the properties)
\* =====================================================================

\* GET the report URL of a run id: 404 when the service returns ''
getReportUrlHandler(rep, r) ==
  LET reportUrl == getReportUrl(rep, r)
  IN IF reportUrl = NoUrl THEN [http |-> 404, reportUrl |-> NoUrl]
     ELSE [http |-> 200, reportUrl |-> reportUrl]

\* =====================================================================
\* allure.controller.ts: getReportsByProject (a read; used by the properties)
\* =====================================================================

\* entries.map(e => ({id, ..., reportUrl}))
RECURSIVE MapEntries(_)
MapEntries(seq) ==
  IF seq = << >> THEN << >>
  ELSE <<[id |-> Head(seq).id, startedAt |-> Head(seq).startedAt,
          reportUrl |-> Head(seq).reportUrl]>> \o MapEntries(Tail(seq))

\* listAllProjectIndexes().flatMap(p => p.entries): the ledgers in readdir order
AllIndexed(led, dir) ==
  readProjectIndex(led, dir, "P1") \o readProjectIndex(led, dir, "P2")

\* the rows of the fallback query, ORDER BY "startedAt" DESC (no run of the
\* model has a completedAt; equal timestamps in id order)
RECURSIVE OrderDesc(_)
OrderDesc(S) ==
  IF S = {} THEN << >>
  ELSE LET m == CHOOSE r \in S : \A q \in S :
                  \/ runs[q].startedAt < runs[r].startedAt
                  \/ (runs[q].startedAt = runs[r].startedAt /\ r <= q)
       IN <<m>> \o OrderDesc(S \ {m})

RECURSIVE WithReport(_)
WithReport(seq) ==
  IF seq = << >> THEN << >>
  ELSE (IF getReportUrl(reports, Head(seq)) # NoUrl
          THEN <<[id |-> Head(seq), startedAt |-> runs[Head(seq)].startedAt,
                  reportUrl |-> getReportUrl(reports, Head(seq))]>>
          ELSE << >>) \o WithReport(Tail(seq))

getReportsByProject_Merged(u, projectId) ==
  LET indexedResults == IF projectId # NoProject
                          THEN MapEntries(readProjectIndex(ledger, indexDir, projectId))
                          ELSE MapEntries(AllIndexed(ledger, indexDir))
      rows == {r \in RunIds : /\ runs[r].exists
                              /\ runs[r].userId = u
                              /\ projectId # NoProject =>
                                   ProjectOf(runs[r].scriptId) = projectId}
  IN IF u = NoUser THEN [http |-> 401, data |-> << >>, queried |-> FALSE]
     ELSE [http |-> 200, data |-> indexedResults \o WithReport(OrderDesc(rows)),
           queried |-> TRUE]
\* queried: whether db.query was issued
getReportsByProject(u, projectId) ==
  LET indexedResults == IF projectId # NoProject
                          THEN MapEntries(readProjectIndex(ledger, indexDir, projectId))
                          ELSE MapEntries(AllIndexed(ledger, indexDir))
      rows == {r \in RunIds : /\ runs[r].exists
                              /\ runs[r].userId = u
                              /\ projectId # NoProject =>
                                   ProjectOf(runs[r].scriptId) = projectId}
  IN IF u = NoUser THEN [http |-> 401, data |-> << >>, queried |-> FALSE]
     ELSE IF Len(indexedResults) > 0
       THEN [http |-> 200, data |-> indexedResults, queried |-> FALSE]
     ELSE [http |-> 200, data |-> WithReport(OrderDesc(rows)), queried |-> TRUE]

\* =====================================================================
Init ==
  /\ now = 0
  /\ runs = [r \in RunIds |-> NoRun]
  /\ results = [r \in RunIds |-> NoResult]
  /\ reports = [r \in RunIds |-> NoDir]
  /\ indexDir = [exists |-> TRUE, mtime |-> 0, corrupt |-> {}, tmp |-> NoTmp]
  /\ ledger = [p \in Projects |-> << >>]
  /\ pc = [p \in Procs |-> "idle"]
  /\ flow = [p \in Procs |-> IdleFlow]

CtlStep(p) ==
  \/ GenAuth(p)
  \/ \E tool \in ToolOutcomes, fault \in Faults, fb \in FallbackOutcomes :
       GenBuild(p, tool, fault, fb)
  \/ \E dbOk \in BOOLEAN : GenUpdate(p, dbOk)
  \/ \E dbOk \in BOOLEAN : GenIndex(p, dbOk)

DirectStep(p) == \E r \in RunIds, u \in Users \cup {NoUser} : DirectGenerate(p, r, u)

\* ---- the selector: one flow at a time, beside runs started elsewhere; the
\* report tool and the filesystem work
SelScripts == {"S1", "S2"}
NextSel ==
  \/ \E s \in SelScripts : SelFetch(1, s)
  \/ SelCreateOk(1)
  \/ SelCreateFail(1)
  \/ \E status \in Statuses : SelPoll(1, status)
  \/ SelPollFail(1)
  \/ GenAuth(1)
  \/ GenBuild(1, "ok", "none", "ok")
  \/ \E dbOk \in BOOLEAN : GenUpdate(1, dbOk)
  \/ \E dbOk \in BOOLEAN : GenIndex(1, dbOk)
  \/ \E s \in SelScripts : StartTestRun(s)
  \/ Tick

Spec == Init /\ [][NextSel]_vars

\* ---- the generator: generate requests for any run id, by the owner of run 1
\* or without a user, with every outcome of the tool and of the filesystem,
\* beside the executions of the runs writing raw results
InitGen ==
  /\ now = 0
  /\ runs = [r \in RunIds |-> IF r = 1
               THEN [exists |-> TRUE, scriptId |-> "S1", userId |-> "u1",
                     startedAt |-> 0, url |-> NoUrl]
               ELSE NoRun]
  /\ results = [r \in RunIds |-> NoResult]
  /\ reports = [r \in RunIds |-> NoDir]
  /\ indexDir = [exists |-> TRUE, mtime |-> 0, corrupt |-> {}, tmp |-> NoTmp]
  /\ ledger = [p \in Projects |-> << >>]
  /\ pc = [p \in Procs |-> "idle"]
  /\ flow = [p \in Procs |-> IdleFlow]

NextGen ==
  \/ DirectStep(1)
  \/ CtlStep(1)
  \/ \E r \in RunIds : runs[r].exists /\ EndTest(r, TRUE)

SpecGen == InitGen /\ [][NextGen]_vars

\* ---- the index: two clients generating reports of the runs of two projects
IdxScripts == {"S1", "S3"}
NextIdx ==
  \/ \E p \in Procs, r \in RunIds : DirectGenerate(p, r, "u1")
  \/ \E p \in Procs : GenAuth(p)
  \/ \E p \in Procs : GenBuild(p, "ok", "none", "ok")
  \/ \E p \in Procs, dbOk \in BOOLEAN : GenUpdate(p, dbOk)
  \/ \E p \in Procs, dbOk \in BOOLEAN : GenIndex(p, dbOk)
  \/ \E s \in IdxScripts : StartTestRun(s)

SpecIdx == Init /\ [][NextIdx]_vars

\* ---- the ledger over time: one client generating reports one after the
\* other while the clock advances
NextUps ==
  \/ \E r \in RunIds : DirectGenerate(1, r, "u1")
  \/ GenAuth(1)
  \/ GenBuild(1, "ok", "none", "ok")
  \/ GenUpdate(1, TRUE)
  \/ \E dbOk \in BOOLEAN : GenIndex(1, dbOk)
  \/ \E s \in IdxScripts : StartTestRun(s)
  \/ Tick

SpecUps == Init /\ [][NextUps]_vars

\* ---- the ledger damaged: one client generating reports while ledger files
\* get damaged
NextHeal ==
  \/ \E r \in RunIds : DirectGenerate(1, r, "u1")
  \/ GenAuth(1)
  \/ GenBuild(1, "ok", "none", "ok")
  \/ GenUpdate(1, TRUE)
  \/ GenIndex(1, TRUE)
  \/ \E s \in IdxScripts : StartTestRun(s)
  \/ \E P \in Projects : CorruptLedger(P)

SpecHeal == Init /\ [][NextHeal]_vars

\* ---- retention: one client generating reports while the clock advances and
\* cleanup requests arrive
NextClean ==
  \/ \E r \in RunIds : DirectGenerate(1, r, "u1")
  \/ GenAuth(1)
  \/ GenBuild(1, "ok", "none", "ok")
  \/ GenUpdate(1, TRUE)
  \/ GenIndex(1, TRUE)
  \/ \E s \in IdxScripts : StartTestRun(s)
  \/ \E days \in DaysChoices : Cleanup(days)
  \/ Tick

SpecClean == Init /\ [][NextClean]_vars

\* ---- the index failing: one client generating reports of one script, the
\* SELECT of the run's row failing at times, the index directory removed by
\* cleanup at times
NextBest ==
  \/ \E r \in RunIds : DirectGenerate(1, r, "u1")
  \/ GenAuth(1)
  \/ GenBuild(1, "ok", "none", "ok")
  \/ GenUpdate(1, TRUE)
  \/ \E dbOk \in BOOLEAN : GenIndex(1, dbOk)
  \/ StartTestRun("S1")
  \/ \E days \in DaysChoices : Cleanup(days)
  \/ Tick

SpecBest == Init /\ [][NextBest]_vars

\* ---- two selectors: two invocations for the same script in flight at once
NextTwo ==
  \/ \E p \in Procs : SelFetch(p, "S1")
  \/ \E p \in Procs : SelCreateOk(p)
  \/ \E p \in Procs, status \in Statuses : SelPoll(p, status)
  \/ \E p \in Procs : GenAuth(p)
  \/ \E p \in Procs : GenBuild(p, "ok", "none", "ok")
  \/ \E p \in Procs : GenUpdate(p, TRUE)
  \/ \E p \in Procs : GenIndex(p, TRUE)

SpecTwo == Init /\ [][NextTwo]_vars

\* ---- the ledger replaced: two clients generating reports of the runs of one
\* project while the clock advances, the process dying inside an append at
\* times
NextAtomic ==
  \/ \E p \in Procs, r \in RunIds : DirectGenerate(p, r, "u1")
  \/ \E p \in Procs : GenAuth(p)
  \/ \E p \in Procs : GenBuild(p, "ok", "none", "ok")
  \/ \E p \in Procs : GenUpdate(p, TRUE)
  \/ \E p \in Procs : GenIndex(p, TRUE)
  \/ \E p \in Procs, at \in CrashPoints : GenIndexCrash(p, at)
  \/ StartTestRun("S1")

SpecAtomic == Init /\ [][NextAtomic]_vars

\* ---- two users: the runs of two users of one project, each user generating
\* reports of its runs, the SELECT of the run's row failing at times
ScopeUsers == {"u1", "u2"}
InitScope ==
  /\ now = 0
  /\ runs = [r \in RunIds |->
               IF r <= 2
                 THEN [exists |-> TRUE, scriptId |-> "S1",
                       userId |-> IF r = 1 THEN "u1" ELSE "u2",
                       startedAt |-> 0, url |-> NoUrl]
                 ELSE NoRun]
  /\ results = [r \in RunIds |-> NoResult]
  /\ reports = [r \in RunIds |-> NoDir]
  /\ indexDir = [exists |-> TRUE, mtime |-> 0, corrupt |-> {}, tmp |-> NoTmp]
  /\ ledger = [p \in Projects |-> << >>]
  /\ pc = [p \in Procs |-> "idle"]
  /\ flow = [p \in Procs |-> IdleFlow]

NextScope ==
  \/ \E r \in RunIds, u \in ScopeUsers : DirectGenerate(1, r, u)
  \/ GenAuth(1)
  \/ GenBuild(1, "ok", "none", "ok")
  \/ GenUpdate(1, TRUE)
  \/ \E dbOk \in BOOLEAN : GenIndex(1, dbOk)
  \/ Tick

SpecScope == InitScope /\ [][NextScope]_vars

\* =====================================================================
\* Properties of the selector and the wait (specification Spec)
\* =====================================================================
StartedAtMost(m, S) == \A q \in S : runs[q].startedAt <= runs[m].startedAt
IsMostRecent(m, s) == m \in ListRuns(s) /\ StartedAtMost(m, ListRuns(s))
IsTerminalStatus(st) == st \in {"passed", "failed", "completed"}

\* C1 (cache-hit path): when the selector is invoked for a script whose most
\* recent run by start timestamp already has a report URL, that URL is what it
\* returns, the invocation ends there, and it has created no run, polled no
\* status and requested no generation.
C1_CacheHit ==
  [][\A s \in SelScripts :
       (/\ SelFetch(1, s)
        /\ ListRuns(s) # {}
        /\ runs[flow'[1].mostRecentRun].url # NoUrl)
       => LET m == flow'[1].mostRecentRun
          IN /\ IsMostRecent(m, s)
             /\ pc'[1] = "done"
             /\ flow'[1].selectedReport = runs[m].url
             /\ flow'[1].selectedReport = ReportUrlOf(m)
             /\ flow'[1].created = 0
             /\ flow'[1].polls = 0 /\ flow'[1].waited = "-"
             /\ flow'[1].generated = 0
             /\ UNCHANGED <<runs, results, reports, indexDir, ledger>>]_vars

\* a cache hit on the newer of two runs of the script, the older one without a URL
C1_Witness ==
  /\ pc[1] = "done"
  /\ flow[1].path = "cache"
  /\ flow[1].selectedReport # NoUrl
  /\ \E q \in ListRuns(flow[1].scriptId) :
       /\ runs[q].startedAt < runs[flow[1].mostRecentRun].startedAt
       /\ runs[q].url = NoUrl

\* C2 (generate-only path): when the script has runs and the most recent one has
\* no report URL, generation is requested for that run, which is then also the
\* most recent run without a URL; the invocation creates no run and never polls.
C2_GenerateOnly ==
  /\ [][\A s \in SelScripts :
          (/\ SelFetch(1, s)
           /\ ListRuns(s) # {}
           /\ runs[flow'[1].mostRecentRun].url = NoUrl)
          => LET m == flow'[1].mostRecentRun
                 noUrl == {q \in ListRuns(s) : runs[q].url = NoUrl}
             IN /\ IsMostRecent(m, s)
                /\ m \in noUrl /\ StartedAtMost(m, noUrl)
                /\ pc'[1] = "g_auth"
                /\ flow'[1].testRunId = m
                /\ flow'[1].generated = 1
                /\ flow'[1].created = 0
                /\ flow'[1].polls = 0 /\ flow'[1].waited = "-"
                /\ UNCHANGED runs]_vars
  /\ [](flow[1].path = "genonly" =>
          /\ flow[1].created = 0
          /\ flow[1].polls = 0 /\ flow[1].waited = "-"
          /\ pc[1] \notin {"create", "poll"})

\* generation requested for the newer of two runs, the older one already reported
C2_Witness ==
  /\ pc[1] = "g_auth"
  /\ flow[1].path = "genonly"
  /\ \E q \in ListRuns(flow[1].scriptId) :
       /\ runs[q].startedAt < runs[flow[1].testRunId].startedAt
       /\ runs[q].url # NoUrl

\* the runs of project P other than r have neither a report directory nor an entry
OnlyReported(r, P) ==
  \A q \in RunIds \ {r} :
    /\ runs[q].exists /\ ProjectOf(runs[q].scriptId) = P => ~reports[q].exists
    /\ \A i \in 1..Len(ledger[P]) : ledger[P][i].id # q

\* C3 (scenario A): an invocation for a script with zero runs, alone in flight,
\* that reaches its end has created exactly one run, polled before requesting
\* generation, and left a report for that run; listing the script's project
\* then gives exactly one entry, whose id is the new run's (the project having
\* no other reported run).
C3_ScenarioA ==
  /\ [][\A s \in SelScripts : (SelFetch(1, s) /\ ListRuns(s) = {}) => pc'[1] = "create"]_vars
  /\ [](flow[1].path = "new" /\ flow[1].generated = 1 =>
          flow[1].created = 1 /\ flow[1].waited \in {"terminal", "timeout"})
  /\ [][(pc[1] # "done" /\ pc'[1] = "done" /\ flow'[1].path = "new")
        => LET r == flow[1].testRunId
               P == ProjectOf(flow[1].scriptId)
               list == getReportsByProject("u1", P)'
           IN /\ flow'[1].testRunId = r /\ flow'[1].scriptId = flow[1].scriptId
              /\ flow'[1].created = 1
              /\ flow'[1].waited \in {"terminal", "timeout"}
              /\ runs'[r].exists /\ runs'[r].scriptId = flow'[1].scriptId
              /\ reports'[r].exists /\ reports'[r].entry # NoPage
              /\ flow'[1].selectedReport = ReportUrlOf(r)
              /\ OnlyReported(r, P)' =>
                   /\ Len(list.data) = 1
                   /\ list.data[1].id = r]_vars

\* scenario A ended: one run created, its entry the only one of the ledger
C3_Witness ==
  /\ pc[1] = "done"
  /\ flow[1].path = "new"
  /\ flow[1].created = 1
  /\ Len(ledger["P1"]) = 1
  /\ ledger["P1"][1].id = flow[1].testRunId

\* C4 (the wait is bounded): the loop makes at most maxAttempts status polls
\* (polls counts the turns that stayed in the loop, so the turn that leaves it
\* is at most the 30th), every turn counts, and the poll that is answered
\* passed, failed or completed is the last one.
C4_WaitBounded ==
  /\ [](flow[1].polls < maxAttempts)
  /\ [][\A status \in Statuses :
          SelPoll(1, status) =>
            /\ pc'[1] = "poll" => flow'[1].polls = flow[1].polls + 1
            /\ pc'[1] # "poll" => flow'[1].waited \in {"terminal", "timeout"}
            /\ IsTerminalStatus(status) =>
                 pc'[1] = "g_auth" /\ flow'[1].waited = "terminal"]_vars

\* a wait ended by a terminal status
C4_Witness ==
  /\ pc[1] = "g_auth"
  /\ flow[1].path = "new"
  /\ flow[1].waited = "terminal"

\* C5 (timeout is not an error): the poll that is the 30th non-terminal answer
\* ends the wait without failing and requests generation for the same run.
C5_TimeoutProceeds ==
  [][\A status \in Statuses :
       (SelPoll(1, status) /\ ~IsTerminalStatus(status) /\ flow[1].polls = maxAttempts - 1)
       => /\ pc'[1] = "g_auth"
          /\ flow'[1].waited = "timeout"
          /\ flow'[1].generated = 1
          /\ flow'[1].testRunId = flow[1].testRunId
          /\ flow'[1].http = 0]_vars

\* a flow that timed out and was answered with its report
C5_Witness ==
  /\ pc[1] = "done"
  /\ flow[1].path = "new"
  /\ flow[1].waited = "timeout"
  /\ flow[1].http = 200
  /\ flow[1].selectedReport # NoUrl

\* ---- the generator (SpecGen)

\* C6 (result placeholder synthesis): a generate call for a run id that has no
\* raw result in the pool, none of whose filesystem calls fails, returns
\* without error and leaves in the pool a raw result of that run id with
\* status passed and no error message; the raw results of other runs stay.
C6_Placeholder ==
  [][\A tool \in ToolOutcomes, fb \in FallbackOutcomes :
       (GenBuild(1, tool, "none", fb) /\ ~results[flow[1].testRunId].exists)
       => LET r == flow[1].testRunId
          IN /\ flow'[1].http # 500
             /\ pc'[1] = "g_update"
             /\ results'[r].exists
             /\ results'[r].status = "passed"
             /\ ~results'[r].message
             /\ \A q \in RunIds \ {r} : results'[q] = results[q]]_vars

\* a placeholder written for a run id the database does not know
C6_Witness ==
  /\ pc[1] = "g_update"
  /\ flow[1].userId = NoUser
  /\ ~runs[flow[1].testRunId].exists
  /\ results[flow[1].testRunId].exists
  /\ results[flow[1].testRunId].status = "passed"

\* C7 (tool failure is absorbed): when the external tool fails and the run's
\* directory can be created and written, the generate call returns the run's
\* directory path, not an error, and the directory holds an entry page
\* afterwards.
C7_ToolFailureAbsorbed ==
  [][\A fault \in {"none", "pool"}, fb \in FallbackOutcomes :
       (GenBuild(1, "fail", fault, fb) /\ flow'[1].exec = "fail")
       => LET r == flow[1].testRunId
          IN /\ flow'[1].http # 500
             /\ pc'[1] = "g_update"
             /\ flow'[1].reportPath = ReportPathOf(r)
             /\ flow'[1].reportPath # NoUrl
             /\ reports'[r].exists
             /\ reports'[r].entry # NoPage]_vars

\* the tool failed on a run that has a real raw result, and a path came back
C7_Witness ==
  /\ pc[1] = "g_update"
  /\ flow[1].exec = "fail"
  /\ flow[1].reportPath # NoUrl
  /\ results[flow[1].testRunId].status = "failed"
  /\ reports[flow[1].testRunId].entry # NoPage

C9_IdempotentUrl ==
  [][(/\ pc[1] = (IF flow[1].userId = NoUser THEN "g_auth" ELSE "g_build")
      /\ pc'[1] \in {"g_update", "done"})
       => LET r == flow[1].testRunId
          IN /\ pc'[1] = "g_update"
             /\ getReportUrl(reports, r)' # NoUrl
             /\ getReportUrl(reports, r)' = <<"allure-reports", r, "index.html">>
             /\ flow'[1].reportUrl = getReportUrl(reports, r)'
             /\ flow[1].prevUrl # NoUrl => flow'[1].reportUrl = flow[1].prevUrl]_vars

\* a second call for the same run answered the URL of the first
C9_Witness ==
  /\ pc[1] = "g_update"
  /\ flow[1].prevUrl # NoUrl
  /\ flow[1].reportUrl = flow[1].prevUrl
  /\ getReportUrl(reports, flow[1].testRunId) = flow[1].reportUrl

\* ---- the index (SpecIdx)

\* C10 (ledger uniqueness): starting from empty ledgers, under any
\* interleaving of generate requests and their appends, no ledger holds two
\* entries with the same run id.
C10_LedgerUnique ==
  \A P \in Projects :
    \A i, j \in 1..Len(ledger[P]) : i # j => ledger[P][i].id # ledger[P][j].id

\* two requests for the same run both appended, beside another run's entry
C10_Witness ==
  /\ pc[1] = "done" /\ pc[2] = "done"
  /\ flow[1].testRunId = flow[2].testRunId
  /\ flow[1].http = 200 /\ flow[2].http = 200
  /\ \E P \in Projects :
       /\ Len(ledger[P]) = 2
       /\ \E i \in 1..2 : ledger[P][i].id = flow[1].testRunId

\* ---- the ledger over time (SpecUps)

\* the ledger seq holds an entry of run r
InLedger(seq, r) == \E i \in 1..Len(seq) : seq[i].id = r

\* C11 (upsert count and order): a generate request that appends puts the
\* run's entry at the front of its project's ledger; the entry count grows by
\* one when the run was not indexed and stays when it was; the other entries
\* keep their order; the listing of the project gives the ledger's entries in
\* the ledger's order; and every ledger is ordered most recently generated
\* first.
C11_UpsertOrder ==
  /\ [][GenIndex(1, TRUE)
        => LET r == flow[1].testRunId
               P == ProjectOf(runs[r].scriptId)
               list == getReportsByProject("u1", P)'
           IN /\ ledger'[P][1].id = r
              /\ Len(ledger'[P]) = IF InLedger(ledger[P], r) THEN Len(ledger[P])
                                                             ELSE Len(ledger[P]) + 1
              /\ \A i \in 1..Len(ledger[P]) :
                   ledger[P][i].id # r => InLedger(ledger'[P], ledger[P][i].id)
              /\ \A i, j \in 2..Len(ledger'[P]) :
                   i < j => \E k, l \in 1..Len(ledger[P]) :
                              /\ k < l
                              /\ ledger[P][k] = ledger'[P][i]
                              /\ ledger[P][l] = ledger'[P][j]
              /\ Len(list.data) = Len(ledger'[P])
              /\ \A i \in 1..Len(list.data) : list.data[i].id = ledger'[P][i].id]_vars
  /\ [](\A P \in Projects : \A i, j \in 1..Len(ledger[P]) :
          i < j => ledger[P][i].createdAt >= ledger[P][j].createdAt)

\* a run generated again later moved in front of the run generated after it
C11_Witness ==
  /\ pc[1] = "done"
  /\ flow[1].prevUrl # NoUrl
  /\ Len(ledger["P1"]) = 2
  /\ ledger["P1"][1].id = flow[1].testRunId
  /\ ledger["P1"][1].createdAt > ledger["P1"][2].createdAt
  /\ runs[ledger["P1"][1].id].startedAt < ledger["P1"][2].createdAt + 1

\* ---- the ledger damaged (SpecHeal)

\* C12 (corrupt ledger self-heal): an append to a project whose ledger file
\* does not parse as a list raises nothing (the request is answered 200) and
\* leaves the ledger readable and holding exactly the one new entry; as long
\* as a ledger is corrupt, reading it and listing its project from the index
\* give the empty list.
C12_SelfHeal ==
  /\ [][(GenIndex(1, TRUE) /\ ProjectOf(runs[flow[1].testRunId].scriptId) \in indexDir.corrupt)
        => LET r == flow[1].testRunId
               P == ProjectOf(runs[r].scriptId)
           IN /\ pc'[1] = "done"
              /\ flow'[1].http = 200
              /\ P \notin indexDir'.corrupt
              /\ Len(ledger'[P]) = 1
              /\ ledger'[P][1].id = r
              /\ ledger'[P][1].reportUrl = flow[1].reportUrl
              /\ Len(readProjectIndex(ledger, indexDir, P)') = 1]_vars
  /\ [](\A P \in indexDir.corrupt :
          /\ readProjectIndex(ledger, indexDir, P) = << >>
          /\ MapEntries(readProjectIndex(ledger, indexDir, P)) = << >>)

\* a ledger healed: it holds the entry of the last request only, though
\* another run of the project had been indexed before the damage
C12_Witness ==
  /\ pc[1] = "done"
  /\ \E P \in Projects :
       /\ P \notin indexDir.corrupt
       /\ Len(ledger[P]) = 1
       /\ ledger[P][1].id = flow[1].testRunId
       /\ \E q \in RunIds \ {flow[1].testRunId} :
            /\ runs[q].exists /\ ProjectOf(runs[q].scriptId) = P
            /\ runs[q].url # NoUrl

\* ---- retention (SpecClean)

\* days the directory of run r has not been modified for
AgeDays(r) == (now - reports[r].mtime) * DaysPerTick

\* C13 (retention window): a cleanup with daysToKeep days removes the
\* directory of a run only if it was last modified more than daysToKeep days
\* ago; a directory modified within the window is still there afterwards,
\* with its content; cleanup creates no directory.
C13_RetentionWindow ==
  [][\A days \in DaysChoices :
       Cleanup(days)
       => LET daysToKeep == IF days = 0 THEN DefaultDaysToKeep ELSE days
          IN \A r \in RunIds :
               /\ (reports[r].exists /\ ~reports'[r].exists) => AgeDays(r) > daysToKeep
               /\ (reports[r].exists /\ AgeDays(r) <= daysToKeep) => reports'[r] = reports[r]
               /\ ~reports[r].exists => ~reports'[r].exists]_vars

\* the report of one run removed, beside the report of another, modified
\* today, still there
C13_Witness ==
  \E q, r \in RunIds :
    /\ runs[q].url # NoUrl /\ ~reports[q].exists
    /\ reports[r].exists /\ reports[r].mtime = now
    /\ now > 0

\* C14 (cleanup frame): a cleanup leaves every project ledger and the
\* raw-result pool unchanged, whatever the ages of the ledgers and of the
\* report directories.
C14_CleanupFrame ==
  [][\A days \in DaysChoices :
       Cleanup(days) => /\ ledger' = ledger
                        /\ results' = results]_vars

\* ---- the index failing (SpecBest)

\* C15 (the index is best-effort): when the run's row cannot be fetched for
\* the entry, or the ledger cannot be written (its directory is gone), the
\* request is still answered 200 with the report path and URL, and the
\* ledgers stay as they were.
C15_IndexBestEffort ==
  [][\A dbOk \in BOOLEAN :
       (GenIndex(1, dbOk) /\ (~dbOk \/ ~indexDir.exists))
       => /\ pc'[1] = "done"
          /\ flow'[1].http = 200
          /\ flow'[1].reportPath = ReportPathOf(flow[1].testRunId)
          /\ flow'[1].reportUrl = ReportUrlOf(flow[1].testRunId)
          /\ flow'[1].selectedReport = flow'[1].reportUrl
          /\ ledger' = ledger
          /\ indexDir' = indexDir]_vars

\* a request answered 200 for a report built today while the index directory
\* was gone
C15_Witness ==
  /\ pc[1] = "done"
  /\ flow[1].http = 200
  /\ flow[1].reportUrl # NoUrl
  /\ ~indexDir.exists
  /\ now > 0
  /\ reports[flow[1].testRunId].exists
  /\ reports[flow[1].testRunId].mtime = now

\* ---- the outcomes of a generate request (SpecGen)

\* C16 (two outcomes): a generate request that has ended was answered either
\* 200 with the run's non-empty report path and URL, or 404 or 500 with no
\* URL; it was never answered 200 with an empty URL.
C16_TwoOutcomes ==
  pc[1] \in {"done", "failed"} =>
    \/ /\ pc[1] = "done"
       /\ flow[1].http = 200
       /\ flow[1].reportUrl = ReportUrlOf(flow[1].testRunId)
       /\ flow[1].reportUrl # NoUrl
       /\ flow[1].reportPath # NoUrl
       /\ flow[1].selectedReport = flow[1].reportUrl
    \/ /\ pc[1] = "failed"
       /\ flow[1].http \in {404, 500}
       /\ flow[1].reportUrl = NoUrl
       /\ flow[1].selectedReport = NoUrl

\* a request answered 200 whose report is the page of the catch block
C16_Witness ==
  /\ pc[1] = "done"
  /\ flow[1].http = 200
  /\ flow[1].reportUrl # NoUrl
  /\ reports[flow[1].testRunId].entry.errorBlock

\* ---- the fast path over time (SpecClean)

\* C17 (once indexed, always on the fast path): a generate request answered
\* 200 for a run of project P leaves an entry of the run in P's ledger, and
\* from then on, whatever happens (other generations, cleanup), the listing of
\* P is answered from the non-empty ledger and contains an entry of the run.
C17_StaysIndexed ==
  /\ [][GenIndex(1, TRUE)
        => InLedger(readProjectIndex(ledger, indexDir,
                      ProjectOf(runs[flow[1].testRunId].scriptId)),
                    flow[1].testRunId)']_vars
  /\ [][\A P \in Projects, r \in RunIds :
          InLedger(readProjectIndex(ledger, indexDir, P), r)
          => /\ readProjectIndex(ledger, indexDir, P)' # << >>
             /\ InLedger(getReportsByProject("u1", P).data, r)']_vars

\* ---- failures of run management (Spec)

\* C18 (run-creation failure): when the POST that creates the run is
\* rejected, the invocation ends there with the rejection surfaced to the
\* caller: it made that one creation attempt and no other, created no run,
\* polled no status, requested no generation, and no ledger, report or raw
\* result changed.
C18_CreationFailure ==
  /\ [][SelCreateFail(1)
        => /\ pc'[1] = "failed"
           /\ flow'[1].error = "create"
           /\ flow'[1].tried = 1
           /\ flow'[1].created = 0
           /\ flow'[1].polls = 0 /\ flow'[1].waited = "-"
           /\ flow'[1].generated = 0
           /\ flow'[1].selectedReport = NoUrl
           /\ UNCHANGED <<runs, results, reports, indexDir, ledger>>]_vars
  /\ [](flow[1].tried <= 1)
  /\ [](flow[1].error = "create"
          => /\ pc[1] = "failed"
             /\ flow[1].created = 0
             /\ flow[1].generated = 0
             /\ flow[1].http = 0)

\* an invocation for a script without runs ended by the rejected creation
C18_Witness ==
  /\ pc[1] = "failed"
  /\ flow[1].error = "create"
  /\ flow[1].tried = 1
  /\ flow[1].path = "new"
  /\ ListRuns(flow[1].scriptId) = {}

\* ---- concurrent requests (SpecIdx)

\* C19 (concurrent appends lose no entry): with two generate requests in
\* flight at once, every append leaves the entry of its run in the ledger of
\* the run's project, and no step removes the entry of any run from any
\* ledger; so after both requests have appended, for distinct runs of one
\* project, the ledger holds both entries and every entry it held before.
C19_NoLostEntry ==
  /\ [][\A p \in Procs :
          GenIndex(p, TRUE)
          => LET r == flow[p].testRunId
                 P == ProjectOf(runs[r].scriptId)
             IN /\ InLedger(ledger'[P], r)
                /\ \A Q \in Projects \ {P} : ledger'[Q] = ledger[Q]]_vars
  /\ [][\A P \in Projects, q \in RunIds :
          InLedger(ledger[P], q) => InLedger(ledger'[P], q)]_vars

\* two clients done with distinct runs of one project, both entries in the
\* ledger, the second client's in front
C19_Witness ==
  /\ pc[1] = "done" /\ pc[2] = "done"
  /\ flow[1].testRunId # flow[2].testRunId
  /\ \E P \in Projects :
       /\ Len(ledger[P]) = 2
       /\ ledger[P][1].id = flow[2].testRunId
       /\ ledger[P][2].id = flow[1].testRunId

\* ---- two selectors (SpecTwo)

\* C20 (no deduplication across requests): an invocation that finds no run of
\* the script goes on to create one whatever the other invocation is doing,
\* and each creation adds a run of the script, also when the other invocation
\* has created one meanwhile; an invocation creates at most one run.
C20_NoDeduplication ==
  /\ [][\A p \in Procs :
          (SelFetch(p, "S1") /\ ListRuns("S1") = {}) => pc'[p] = "create"]_vars
  /\ [][\A p \in Procs :
          SelCreateOk(p)
          => /\ flow'[p].testRunId \notin ListRuns("S1")
             /\ ListRuns("S1")' = ListRuns("S1") \cup {flow'[p].testRunId}
             /\ flow'[p].created = 1]_vars
  /\ [](\A p \in Procs : flow[p].created <= 1 /\ flow[p].tried <= 1)

\* two invocations for the same script each created a run and each got the
\* report of its own run
C20_Witness ==
  /\ pc[1] = "done" /\ pc[2] = "done"
  /\ flow[1].path = "new" /\ flow[2].path = "new"
  /\ flow[1].scriptId = flow[2].scriptId
  /\ flow[1].created = 1 /\ flow[2].created = 1
  /\ flow[1].testRunId # flow[2].testRunId
  /\ Cardinality(ListRuns(flow[1].scriptId)) = 2
  /\ \A p \in Procs : /\ flow[p].selectedReport = ReportUrlOf(flow[p].testRunId)
                       /\ runs[flow[p].testRunId].url = flow[p].selectedReport

\* =====================================================================
\* Properties of the ledger's replacement (specification SpecAtomic)
\* =====================================================================

\* C21 (atomic ledger replace): at every point of an append, the process dying
\* while the temporary file is written or between the write and the rename
\* included, a read of the project's ledger returns a complete list: the list
\* of before the append, or that list with the entry put in front. No ledger
\* file ever fails to parse, and a temporary file left behind is not listed
\* as a ledger.
C21_AtomicReplace ==
  /\ [](indexDir.corrupt = {})
  /\ [][\A P \in Projects :
         LET before == readProjectIndex(ledger, indexDir, P)
             after == readProjectIndex(ledger, indexDir, P)'
         IN \/ after = before
            \/ \E p \in Procs :
                 /\ pc[p] = "g_index" /\ pc'[p] = "done"
                 /\ after = Upsert(before, IndexEntry(flow[p].testRunId,
                                                     flow[p].reportUrl))]_vars
  /\ [][(\E p \in Procs, at \in CrashPoints : GenIndexCrash(p, at))
         => /\ \A P \in Projects : readProjectIndex(ledger, indexDir, P)'
                                     = readProjectIndex(ledger, indexDir, P)
            /\ AllIndexed(ledger, indexDir)' = AllIndexed(ledger, indexDir)]_vars

\* a temporary file was left behind by a dying append and the ledger holds the
\* list of before
C21_Witness ==
  \E p \in Procs :
    /\ flow[p].error = "crash"
    /\ indexDir.tmp["P1"] = "partial"
    /\ Len(readProjectIndex(ledger, indexDir, "P1")) = 1

\* =====================================================================
\* Properties of the artifact directories (specification SpecGen)
\* =====================================================================

\* C22 (idempotent overwrite): every call of generateReport that returns
\* leaves in the run's directory only what this call wrote: its index.html is
\* the page of this call, and files of the report tool are in it only when
\* the tool succeeded in this call. What an earlier call left is cleared, on
\* the basic-page and error-page paths as on the tool's path.
C22_ClearsPrior ==
  [][(/\ pc[1] = (IF flow[1].userId = NoUser THEN "g_auth" ELSE "g_build")
      /\ pc'[1] \in {"g_update", "done"})
     => LET r == flow[1].testRunId
        IN /\ reports'[r].entry \in {AllurePage, BasicPage(r), ErrorPage(r)}
           /\ reports'[r].assets = "allure" => flow'[1].exec \in {"ok", "noindex"}]_vars

\* C24 (not found): a generate request for a run id that is not in run storage
\* is answered 404 and leaves the raw-result pool, the artifact directories
\* and the ledgers as they were; a request for the report URL of a run that
\* has no artifact directory is answered 404.
C24_NotFound ==
  /\ [][(/\ pc[1] = "g_auth"
          /\ ~runs[flow[1].testRunId].exists
          /\ pc'[1] # "g_auth")
         => /\ flow'[1].http = 404
            /\ UNCHANGED <<results, reports, indexDir, ledger>>]_vars
  /\ [](\A r \in RunIds :
          ~reports[r].exists => getReportUrlHandler(reports, r).http = 404)

\* C28 (entry resource behind every URL): for every name under allure-reports
\* for which getReportUrl returns a URL, the index.html the URL points to
\* exists and the name is the id of a run a report was generated for; also
\* after a generation that failed part-way, and for by-project, which is no
\* run and holds no index.html.
C28_EntryBehindUrl ==
  /\ \A r \in RunIds :
       getReportUrl(reports, r) # NoUrl => reports[r].entry # NoPage
  /\ getReportUrlOfIndexDir(indexDir) = NoUrl

\* =====================================================================
\* Properties of the catalog (specifications SpecClean, SpecUps, SpecScope)
\* =====================================================================
IdsOf(seq) == {seq[i].id : i \in 1..Len(seq)}
MatchingRuns(u, projectId) ==
  {r \in RunIds : /\ runs[r].exists
                  /\ runs[r].userId = u
                  /\ projectId # NoProject => ProjectOf(runs[r].scriptId) = projectId}

\* C23 (catalog path selection): a listing is answered from the index whenever
\* the index read returns at least one entry (the ledger of the project of the
\* query, or all ledgers merged when the query names no project), and then
\* run storage is not queried; it is answered from run storage only when the
\* index read returns no entry, and then it holds exactly the runs matching
\* the query whose report URL is non-empty, each once, with that URL.
C23_PathSelection ==
  \A projectId \in Projects \cup {NoProject} :
    LET L == getReportsByProject("u1", projectId)
        indexed == IF projectId # NoProject
                     THEN readProjectIndex(ledger, indexDir, projectId)
                     ELSE AllIndexed(ledger, indexDir)
    IN /\ L.http = 200
       /\ IF Len(indexed) > 0
            THEN /\ ~L.queried
                 /\ L.data = MapEntries(indexed)
            ELSE /\ L.queried
                 /\ IdsOf(L.data) = {r \in MatchingRuns("u1", projectId) :
                                      getReportUrl(reports, r) # NoUrl}
                 /\ Len(L.data) = Cardinality(IdsOf(L.data))
                 /\ \A i \in 1..Len(L.data) :
                      L.data[i].reportUrl = getReportUrl(reports, L.data[i].id)

\* both paths at once: project P1 is listed from run storage (a run with a
\* directory, no entry in its ledger yet) while the listing of all projects is
\* answered from the index
C23_Witness ==
  /\ readProjectIndex(ledger, indexDir, "P1") = << >>
  /\ getReportsByProject("u1", "P1").queried
  /\ Len(getReportsByProject("u1", "P1").data) = 1
  /\ ~getReportsByProject("u1", NoProject).queried

\* C25 (listed reports exist): every entry a listing returns, and every URL
\* the selector returns on its cache-hit path, is the URL of a run whose
\* artifact directory exists; cleanup having run changes nothing to that.
C25_ListedExist ==
  /\ \A projectId \in Projects \cup {NoProject} :
       LET L == getReportsByProject("u1", projectId)
       IN \A i \in 1..Len(L.data) :
            /\ reports[L.data[i].id].exists
            /\ L.data[i].reportUrl = getReportUrl(reports, L.data[i].id)
  /\ \A s \in Scripts : \A m \in MostRecentRuns(s) :
       HasReport(runs[m]) =>
         /\ reports[m].exists
         /\ runs[m].url = getReportUrl(reports, m)

\* C26 (user scoping of the catalog): a listing requested by a user holds only
\* reports of runs of that user, when it is answered from the index as when it
\* is answered from run storage, and a step of another user's request never
\* changes what the user is listed.
C26_UserScoped ==
  /\ [](\A U \in ScopeUsers : \A projectId \in Projects \cup {NoProject} :
          LET L == getReportsByProject(U, projectId)
          IN \A i \in 1..Len(L.data) : runs[L.data[i].id].userId = U)
  /\ [][\A U \in ScopeUsers : \A projectId \in Projects \cup {NoProject} :
          (pc[1] \notin Rest /\ flow[1].userId # U)
            => getReportsByProject(U, projectId)' = getReportsByProject(U, projectId)]_vars

\* C27 (dual-path agreement): whenever no request is in flight, the listing of
\* a project holds every run of the project owned by the caller whose
\* artifact directory exists, and when the index has entries of the project
\* they are the runs the query of run storage would return.
C27_DualPathAgree ==
  pc[1] \in Rest =>
    \A P \in Projects :
      LET L == getReportsByProject("u1", P)
          indexed == MapEntries(readProjectIndex(ledger, indexDir, P))
          queried == WithReport(OrderDesc(MatchingRuns("u1", P)))
      IN /\ {r \in MatchingRuns("u1", P) : reports[r].exists} \subseteq IdsOf(L.data)
         /\ Len(indexed) > 0 => IdsOf(indexed) = IdsOf(queried)

\* =====================================================================
\* Properties of the stored report URL and of the wait's failures
\* (specification Spec)
\* =====================================================================

\* C29 as stated (report URL write-back): whenever a generate request is
\* answered 200 for a run, the run's stored report URL equals the URL of the
\* answer, whether the write-back worked or failed.
C29_WriteBackAlways ==
  [][(pc[1] = "g_index" /\ pc'[1] = "done")
     => runs'[flow[1].testRunId].url = flow'[1].selectedReport]_vars

\* C29 amended: a write-back that works leaves the URL of the answer in the
\* run's row; one that fails leaves run storage as it was and the request
\* goes on to its 200. A selector invocation that follows a request answered
\* 200 for the only most recent run of the same script takes the cache-hit
\* path with that URL and generates nothing when the URL was stored, and the
\* generate-only path for the same run when it was not.
C29_WriteBack ==
  /\ [][GenUpdate(1, TRUE)
         => runs'[flow[1].testRunId].url = flow[1].reportUrl]_vars
  /\ [][GenUpdate(1, FALSE) => (UNCHANGED runs /\ pc'[1] = "g_index")]_vars
  /\ [][(pc[1] = "g_index" /\ pc'[1] = "done")
         => /\ flow'[1].http = 200
            /\ runs'[flow[1].testRunId].url \in {NoUrl, flow'[1].selectedReport}]_vars
  /\ [][LET m == flow[1].testRunId
        IN (/\ pc[1] = "done" /\ flow[1].http = 200
            /\ flow' # flow
            /\ flow'[1].scriptId = flow[1].scriptId
            /\ MostRecentRuns(flow[1].scriptId) = {m})
           => IF runs[m].url = flow[1].selectedReport
                THEN /\ pc'[1] = "done"
                     /\ flow'[1].path = "cache"
                     /\ flow'[1].selectedReport = flow[1].selectedReport
                     /\ flow'[1].generated = 0
                     /\ flow'[1].created = 0
                ELSE /\ pc'[1] = "g_auth"
                     /\ flow'[1].path = "genonly"
                     /\ flow'[1].testRunId = m
                     /\ flow'[1].created = 0]_vars

\* the write-back of an earlier request failed: the run's report exists, its
\* row holds no URL, and the selector is generating the report again
C29_Witness ==
  /\ pc[1] = "g_auth"
  /\ flow[1].path = "genonly"
  /\ reports[flow[1].testRunId].exists
  /\ runs[flow[1].testRunId].url = NoUrl

\* C30 (the wait survives failed polls): once the selector has created a run,
\* every step of its wait either keeps it waiting or takes it to the generate
\* request for that run; a status poll that fails does not end the
\* invocation.
C30_PollFailureTolerated ==
  [][(pc[1] = "poll" /\ flow[1].created = 1)
     => /\ pc'[1] \in {"poll", "g_auth"}
        /\ flow'[1].testRunId = flow[1].testRunId
        /\ flow'[1].error = "-"]_vars

====
